---- MODULE Spec2Model ----
(***************************************************************************)
(* A model of bulkimport/bulk_importer.py: the BulkDataImportHandler that  *)
(* maps spreadsheet rows onto persisted records.                           *)
(*                                                                         *)
(* Python values are modelled as tagged records: None is [t |-> "none"],   *)
(* a str is [t |-> "str", s |-> <<characters>>], and the result of         *)
(* dateutil's parse is [t |-> "date", ...].  Python lists are sequences;   *)
(* Python indexes are 0-based and the sequences here are 1-based, so       *)
(* data[header_row] is data[header_row + 1].                               *)
(*                                                                         *)
(* The collaborators (openpyxl, the Django ORM) are modelled by what the   *)
(* handler asks of them: a grid of cell values, model(), objects.get,      *)
(* save.  Every call the handler makes on a collaborator is appended to    *)
(* `trace`, the way a mock records its calls.                              *)
(***************************************************************************)
EXTENDS Integers, Sequences, FiniteSets, TLC

\* ------------------------------------------------------------------ bounds
\* At most this many add_mapping calls on a handler that imports spreadsheets.
MaxMappings == 2
\* At most this many add_mapping calls on a handler that is driven row by row.
MaxRowMappings == 3
\* At most this many add_function_mapping calls on one handler.
MaxFuncs == 1
\* Data rows of a spreadsheet (below the header row).
MaxRows == 2
\* process_row and process_spreadsheet calls made on one handler.
MaxCalls == 2

\* ------------------------------------------------------- program constants
\* self.header_row = 0
header_row == 0
\* self.first_data_row = 1
first_data_row == 1

\* ------------------------------------------------------------ Python values
None == [t |-> "none", s |-> <<>>]
Str(s) == [t |-> "str", s |-> s]

\* bool(v): None and the empty string are falsy.
Truthy(v) == ~(v.t = "none" \/ (v.t = "str" /\ v.s = <<>>))

\* str.lower on the letters the model uses, one character at a time.
LowerChar(c) ==
    CASE c = "I" -> "i"
      [] c = "D" -> "d"
      [] c = "N" -> "n"
      [] c = "M" -> "m"
      [] c = "E" -> "e"
      [] c = "X" -> "x"
      [] OTHER -> c

lower(v) == Str([k \in 1..Len(v.s) |-> LowerChar(v.s[k])])

\* list.index(x): the first position holding x; 0 stands for the ValueError
\* raised when x is not in the list.
index(list, x) ==
    IF \E k \in 1..Len(list) : list[k] = x
    THEN CHOOSE k \in 1..Len(list) :
            list[k] = x /\ \A j \in 1..(k - 1) : list[j] # x
    ELSE 0

\* ------------------------------------------------ the persistence collaborator
\* One Django model, with one field of each class process_value tells apart:
\* `code` (neither text nor date), `name` (a CharField), `joined` (a DateField).
Fields == {"code", "name", "joined"}

FieldKind(field) ==
    CASE field = "name" -> "char"
      [] field = "joined" -> "date"
      [] OTHER -> "other"

\* unique_field=None
NoField == "None"

\* model(): a blank unsaved record (pk 0 stands for "no primary key yet").
NewInstance == [pk |-> 0, code |-> None, name |-> Str(<<>>), joined |-> None]

\* One call the handler makes on a collaborator, as a mock would record it.
\*   model    model()                     i: the mapping's position
\*   get      model.objects.get(field=value)
\*   setattr  setattr(instance, field, value), for the mapped column col
\*   link     linking_func(*args)
\*   save     instance.save(), args = <<instance as saved>>
\*   func     func_mapping(headers, vals), i: the function's position
\*   rebuild  management.call_command('rebuild_index')
Ev(e, i, field, col, value, args) ==
    [e |-> e, i |-> i, field |-> field, col |-> col, value |-> value, args |-> args]

Max(S) == CHOOSE x \in S : \A y \in S : y <= x

\* save() as a forced insert: every save adds a record, also for an instance
\* that was fetched from the storage.
save_always_insert(db, instance) ==
    LET pk == IF db = {} THEN 1 ELSE Max({r.pk : r \in db}) + 1
        saved == [instance EXCEPT !.pk = pk]
    IN  [db |-> db \cup {saved}, instance |-> saved]

\* save() that writes new records only: a fetched instance is not written back.
save_new_only(db, instance) ==
    IF instance.pk = 0
    THEN LET pk == IF db = {} THEN 1 ELSE Max({r.pk : r \in db}) + 1
             saved == [instance EXCEPT !.pk = pk]
         IN  [db |-> db \cup {saved}, instance |-> saved]
    ELSE [db |-> db, instance |-> instance]

\* instance.save(): inserts an unsaved record under a fresh primary key,
\* updates the stored record otherwise.
save(db, instance) ==
    IF instance.pk = 0
    THEN LET pk == IF db = {} THEN 1 ELSE Max({r.pk : r \in db}) + 1
             saved == [instance EXCEPT !.pk = pk]
         IN  [db |-> db \cup {saved}, instance |-> saved]
    ELSE [db |-> {r \in db : r.pk # instance.pk} \cup {instance},
          instance |-> instance]

\* dateutil.parser.parse(value, dayfirst=True) on the texts "d/m"; every other
\* value makes it raise.
Digits == {"0", "1", "2", "3", "4", "5", "6", "7", "8", "9"}

Parseable(value) ==
    /\ value.t = "str"
    /\ Len(value.s) = 3
    /\ value.s[2] = "/"
    /\ value.s[1] \in Digits
    /\ value.s[3] \in Digits

process_value(instance, field, value) ==
    LET dated == IF FieldKind(field) = "date"
                 THEN IF Parseable(value)
                      THEN [t |-> "date", s |-> <<value.s[1], value.s[3]>>]
                      ELSE None
                 ELSE value
    IN  IF FieldKind(field) \in {"char", "text"} /\ ~Truthy(dated)
        THEN Str(<<>>)
        ELSE dated

\* Exceptions are carried in an `exc` field; "" is normal completion.
NoExc == ""

\* _find_or_create_record that treats a missing unique header like a record
\* that is not found, and creates the instance.
find_or_create_record_tolerant(db, i, unique_column, field_name, headers, vals) ==
    LET created == [exc |-> NoExc, instance |-> NewInstance,
                    events |-> <<Ev("model", i, NoField, None, None, <<>>)>>]
        k == index(headers, unique_column)
    IN  IF ~Truthy(unique_column) \/ k = 0
        THEN created
        ELSE IF k > Len(vals)
        THEN [exc |-> "IndexError", instance |-> NewInstance, events |-> <<>>]
        ELSE IF field_name = NoField
        THEN [exc |-> "TypeError", instance |-> NewInstance, events |-> <<>>]
        ELSE LET value == vals[k]
                 found == {r \in db : r[field_name] = value}
                 got == Ev("get", i, field_name, unique_column, value, <<>>)
             IN  IF found = {}
                 THEN [created EXCEPT !.events = <<got>> \o @]
                 ELSE IF Cardinality(found) = 1
                 THEN [exc |-> NoExc, instance |-> CHOOSE r \in found : TRUE,
                       events |-> <<got>>]
                 ELSE [exc |-> "MultipleObjectsReturned", instance |-> NewInstance,
                       events |-> <<got>>]

\* _find_or_create_record(model, unique_column, field_name, headers, vals),
\* for the mapping at position i, against the storage db.
find_or_create_record(db, i, unique_column, field_name, headers, vals) ==
    IF Truthy(unique_column)
    THEN LET k == index(headers, unique_column)
         IN  IF k = 0
             THEN [exc |-> "MissingUniqueHeaderException", instance |-> NewInstance,
                   events |-> <<>>]
             ELSE IF k > Len(vals)
             THEN [exc |-> "IndexError", instance |-> NewInstance, events |-> <<>>]
             ELSE IF field_name = NoField
             THEN \* get(**{None: value}): keywords must be strings
                  [exc |-> "TypeError", instance |-> NewInstance, events |-> <<>>]
             ELSE LET value == vals[k]
                      found == {r \in db : r[field_name] = value}
                      got == Ev("get", i, field_name, unique_column, value, <<>>)
                  IN  IF found = {}
                      THEN [exc |-> NoExc, instance |-> NewInstance,
                            events |-> <<got, Ev("model", i, NoField, None, None, <<>>)>>]
                      ELSE IF Cardinality(found) = 1
                      THEN [exc |-> NoExc, instance |-> CHOOSE r \in found : TRUE,
                            events |-> <<got>>]
                      ELSE [exc |-> "MultipleObjectsReturned", instance |-> NewInstance,
                            events |-> <<got>>]
    ELSE [exc |-> NoExc, instance |-> NewInstance,
          events |-> <<Ev("model", i, NoField, None, None, <<>>)>>]

\* ------------------------------------------------------------- the handler
VARIABLES
    mappings,       \* self.mappings: the ModelMapping tuples, in registration order
    linking_func,   \* self.linking_func: None (FALSE) or a registered function (TRUE)
    func_mappings,  \* self.func_mappings: how many functions are registered
    spreadsheet,    \* the uploaded workbook's first sheet: a grid of cell values
    db,             \* model.objects: the persisted records
    op,             \* the last operation called
    args,           \* process_row's (headers, vals) of the last call, else <<>>
    ret,            \* what the last operation returned
    exc,            \* the exception the last operation raised, or NoExc
    trace,          \* the collaborator calls the last operation made
    db_before,      \* the storage as the last operation found it
    imports,        \* process_spreadsheet calls that returned in a row, up to 2
    calls           \* process_row and process_spreadsheet calls made so far

vars == <<mappings, linking_func, func_mappings, spreadsheet, db, op, args, ret,
          exc, trace, db_before, imports, calls>>

\* A Python return value: a list, or nothing (the call raised).
List(items) == [kind |-> "list", items |-> items]
NoRet == [kind |-> "none", items |-> <<>>]

\* The loop's turn without its except clause: the ValueError of a column that
\* is not among the headers propagates.
assign_field_uncaught(col, field, i, instance, headers, vals) ==
    LET k == index(headers, lower(col))
    IN  IF k = 0
        THEN [exc |-> "ValueError", instance |-> instance, events |-> <<>>]
        ELSE IF k > Len(vals)
        THEN [exc |-> "IndexError", instance |-> instance, events |-> <<>>]
        ELSE LET value == process_value(instance, field, vals[k])
             IN  [exc |-> NoExc, instance |-> [instance EXCEPT ![field] = value],
                  events |-> <<Ev("setattr", i, field, col, value, <<>>)>>]

\* One turn of the loop over mapping.items(), for the pair (col, field) of the
\* mapping at position i:
\*     try:    value = vals[headers.index(col.lower())]
\*             value = self.process_value(instance, field, value)
\*             setattr(instance, field, value)
\*     except ValueError: pass
assign_field(col, field, i, instance, headers, vals) ==
    LET k == index(headers, lower(col))
    IN  IF k = 0
        THEN [exc |-> NoExc, instance |-> instance, events |-> <<>>]
        ELSE IF k > Len(vals)
        THEN [exc |-> "IndexError", instance |-> instance, events |-> <<>>]
        ELSE LET value == process_value(instance, field, vals[k])
             IN  [exc |-> NoExc, instance |-> [instance EXCEPT ![field] = value],
                  events |-> <<Ev("setattr", i, field, col, value, <<>>)>>]

\* for col, field in mapping.items(): from the pair at position j on.
\* mapping is the dict's (column, field) pairs in iteration order.
RECURSIVE assign_fields(_, _, _, _, _, _)
assign_fields(mapping, j, i, instance, headers, vals) ==
    IF j > Len(mapping)
    THEN [exc |-> NoExc, instance |-> instance, events |-> <<>>]
    ELSE LET a == assign_field(mapping[j][1], mapping[j][2], i, instance,
                               headers, vals)
         IN  IF a.exc # NoExc
             THEN a
             ELSE LET rest == assign_fields(mapping, j + 1, i, a.instance,
                                            headers, vals)
                  IN  [rest EXCEPT !.events = a.events \o @]

\* The linking call with the test len(affected_records) > 0.
call_linking_func_from_first(link, i, affected_records) ==
    IF link /\ Len(affected_records) > 0
    THEN <<Ev("link", i, NoField, None, None, affected_records)>>
    ELSE <<>>

\* if self.linking_func and len(affected_records) > 1:
\*     self.linking_func(*affected_records)
\* after the instance of the mapping at position i has been appended.
call_linking_func(link, i, affected_records) ==
    IF link /\ Len(affected_records) > 1
    THEN <<Ev("link", i, NoField, None, None, affected_records)>>
    ELSE <<>>

\* for func_mapping in self.func_mappings: func_mapping(headers, vals)
call_func_mappings(n) == [j \in 1..n |-> Ev("func", j, NoField, None, None, <<>>)]

\* The loop of process_row over self.mappings, from the mapping at position i
\* on; st carries the storage, the affected_records so far, the calls made and
\* the exception that ended the loop, if any.
RECURSIVE process_mappings(_, _, _, _, _, _)
process_mappings(maps, link, i, st, headers, vals) ==
    IF i > Len(maps) \/ st.exc # NoExc
    THEN st
    ELSE LET m == maps[i]
             r == find_or_create_record(st.db, i, m.unique_column, m.unique_field,
                                        headers, vals)
         IN  IF r.exc # NoExc
             THEN [st EXCEPT !.exc = r.exc, !.trace = @ \o r.events]
             ELSE LET a == assign_fields(m.mapping, 1, i, r.instance, headers, vals)
                  IN  IF a.exc # NoExc
                      THEN [st EXCEPT !.exc = a.exc,
                                      !.trace = @ \o r.events \o a.events]
                      ELSE LET affected == Append(st.affected, a.instance)
                               linked == call_linking_func(link, i, affected)
                               s == save(st.db, a.instance)
                           IN  process_mappings(maps, link, i + 1,
                                 [db |-> s.db,
                                  \* the list holds the object save() has just given its pk
                                  affected |-> Append(st.affected, s.instance),
                                  trace |-> st.trace \o r.events \o a.events \o linked
                                            \o <<Ev("save", i, NoField, None, None,
                                                    <<s.instance>>)>>,
                                  exc |-> NoExc],
                                 headers, vals)

\* The end of process_row, the loop over self.mappings having ended in st:
\* the function mappings are called and affected_records returned.
return_affected_records(st, funcs) ==
    IF st.exc # NoExc
    THEN [db |-> st.db, ret |-> NoRet, exc |-> st.exc, trace |-> st.trace]
    ELSE [db |-> st.db, ret |-> List(st.affected), exc |-> NoExc,
          trace |-> st.trace \o call_func_mappings(funcs)]

\* process_row(self, headers, vals) against the storage d.
process_row(maps, link, funcs, d, headers, vals) ==
    return_affected_records(
        process_mappings(maps, link, 1,
            [db |-> d, affected |-> <<>>, trace |-> <<>>, exc |-> NoExc],
            headers, vals),
        funcs)

\* headers = [v.value.lower() for v in data[self.header_row] if v.value]
read_headers(data) ==
    LET cells == SelectSeq(data[header_row + 1], Truthy)
    IN  [k \in 1..Len(cells) |-> lower(cells[k])]

\* all_affected_records.append(affected_records), after the process_row call
\* whose outcome is r; an exception of process_row ends the loop.
append_affected_records(st, r) ==
    [db |-> r.db,
     all |-> IF r.exc = NoExc THEN Append(st.all, r.ret.items) ELSE st.all,
     trace |-> st.trace \o r.trace,
     exc |-> r.exc]

\* The loop of process_spreadsheet over data[self.first_data_row:], from the
\* row at (1-based) position n on.
RECURSIVE process_rows(_, _, _, _, _, _, _)
process_rows(maps, link, funcs, data, headers, n, st) ==
    IF n > Len(data) \/ st.exc # NoExc
    THEN st
    ELSE IF Len(data[n]) = 0 \/ Len(headers) = 0
    THEN \* vals[0] == headers[0] on an empty list
         [st EXCEPT !.exc = "IndexError"]
    ELSE IF data[n][1] = headers[1]
    THEN \* repeated headers: continue
         process_rows(maps, link, funcs, data, headers, n + 1, st)
    ELSE process_rows(maps, link, funcs, data, headers, n + 1,
            append_affected_records(st,
                process_row(maps, link, funcs, st.db, headers, data[n])))

\* The end of process_spreadsheet, the loop having ended in st: the search
\* index is rebuilt on request and all_affected_records returned.
return_all_affected_records(st, rebuild_search_index) ==
    IF st.exc # NoExc
    THEN [db |-> st.db, ret |-> NoRet, exc |-> st.exc, trace |-> st.trace]
    ELSE [db |-> st.db, ret |-> List(st.all), exc |-> NoExc,
          trace |-> IF rebuild_search_index
                    THEN Append(st.trace, Ev("rebuild", 0, NoField, None, None, <<>>))
                    ELSE st.trace]

\* process_spreadsheet(self, spreadsheet, rebuild_search_index) against the
\* storage d; data is the first sheet's grid.
process_spreadsheet(maps, link, funcs, d, data, rebuild_search_index) ==
    return_all_affected_records(
        process_rows(maps, link, funcs, data, read_headers(data), first_data_row + 1,
                     [db |-> d, all |-> <<>>, trace |-> <<>>, exc |-> NoExc]),
        rebuild_search_index)

\* add_mapping that registers unique_column as written, without lower().
add_mapping_verbatim(maps, model, mapping, unique_column, unique_field) ==
    Append(maps, [model |-> model, mapping |-> mapping,
                  unique_column |-> unique_column, unique_field |-> unique_field])

\* add_mapping(self, model, mapping, unique_column=None, unique_field=None):
\* the new self.mappings.
add_mapping(maps, model, mapping, unique_column, unique_field) ==
    LET column == IF Truthy(unique_column) THEN lower(unique_column)
                  ELSE unique_column
    IN  Append(maps, [model |-> model, mapping |-> mapping,
                      unique_column |-> column, unique_field |-> unique_field])

\* ------------------------------------------------------------------ inputs
ID == Str(<<"I", "D">>)
Id == Str(<<"I", "d">>)
id == Str(<<"i", "d">>)
Nm == Str(<<"N", "m">>)
nm == Str(<<"n", "m">>)
ex == Str(<<"e", "x">>)

\* The add_mapping calls a caller makes: (mapping, unique_column, unique_field).
MappingArgs ==
    { \* a unique column mapped onto its unique field, as in test_unique_field
      [mapping |-> <<<<ID, "code">>, <<Nm, "name">>>>,
       unique_column |-> ID, unique_field |-> "code"],
      \* no unique column, and a column no spreadsheet has, as in
      \* test_mapped_column_no_data
      [mapping |-> <<<<nm, "name">>, <<ex, "joined">>>>,
       unique_column |-> None, unique_field |-> NoField],
      \* a unique text field
      [mapping |-> <<<<Id, "name">>>>,
       unique_column |-> Id, unique_field |-> "name"],
      \* a unique column without a unique field
      [mapping |-> <<<<ID, "joined">>>>,
       unique_column |-> Nm, unique_field |-> NoField] }

\* The cells of a header row and of a data row, two columns wide: a data row
\* may repeat the header's text, as typed or in lower case, or be blank.
HeaderCells == {None, ID, nm}
FirstCells == {None, ID, id}
OtherCells == {None, id}

Rows(first, other) == {<<a, b>> : a \in first, b \in other}

RECURSIVE Grids(_)
\* The grids with at most n data rows below the header row.
Grids(n) ==
    IF n = 0
    THEN {<<h>> : h \in Rows(HeaderCells, HeaderCells)}
    ELSE Grids(n - 1) \cup
         {Append(g, r) : g \in {g \in Grids(n - 1) : Len(g) = n}, r \in Rows(FirstCells, OtherCells)}

Sheets == Grids(MaxRows)

\* The storage a handler may find.
InitialDbs ==
    { {},
      {[pk |-> 1, code |-> id, name |-> id, joined |-> None]} }

\* ----------------------------------------------------------------- actions
\* BulkDataImportHandler(), and whatever the spreadsheet and the storage hold.
Init ==
    /\ mappings = <<>>
    /\ linking_func = FALSE
    /\ func_mappings = 0
    /\ spreadsheet \in Sheets
    /\ db \in InitialDbs
    /\ op = "__init__"
    /\ args = <<>>
    /\ ret = NoRet
    /\ exc = NoExc
    /\ trace = <<>>
    /\ db_before = db
    /\ imports = 0
    /\ calls = 0

\* What an add_* call leaves of the last operation.  The handler is configured
\* before it processes anything: no add_* call follows a process_* call.
Configured(name) ==
    /\ calls = 0
    /\ op' = name
    /\ args' = <<>>
    /\ ret' = NoRet
    /\ exc' = NoExc
    /\ trace' = <<>>
    /\ db_before' = db
    /\ imports' = 0
    /\ UNCHANGED <<spreadsheet, db, calls>>

AddMapping(limit) ==
    /\ Len(mappings) < limit
    /\ \E a \in MappingArgs :
          mappings' = add_mapping(mappings, "Person", a.mapping, a.unique_column,
                                  a.unique_field)
    /\ Configured("add_mapping")
    /\ UNCHANGED <<linking_func, func_mappings>>

AddFunctionMapping ==
    /\ func_mappings < MaxFuncs
    /\ func_mappings' = func_mappings + 1
    /\ Configured("add_function_mapping")
    /\ UNCHANGED <<mappings, linking_func>>

AddLinkingFunction ==
    /\ linking_func' = TRUE
    /\ linking_func # linking_func'
    /\ Configured("add_linking_function")
    /\ UNCHANGED <<mappings, func_mappings>>

Returned(name, a, r) ==
    /\ calls < MaxCalls
    /\ calls' = calls + 1
    /\ op' = name
    /\ args' = a
    /\ db' = r.db
    /\ ret' = r.ret
    /\ exc' = r.exc
    /\ trace' = r.trace
    /\ db_before' = db
    /\ imports' = IF name # "process_spreadsheet" \/ r.exc # NoExc THEN 0
                  ELSE IF imports < 2 THEN imports + 1 ELSE 2
    /\ UNCHANGED <<mappings, linking_func, func_mappings, spreadsheet>>

ProcessSpreadsheet ==
    \E rebuild_search_index \in BOOLEAN :
       Returned("process_spreadsheet", <<>>,
                process_spreadsheet(mappings, linking_func, func_mappings, db,
                                    spreadsheet, rebuild_search_index))

ProcessRow ==
    \E headers \in Rows({ID, id, nm}, {id, nm}), vals \in Rows(FirstCells, OtherCells) :
       Returned("process_row", <<headers, vals>>,
                process_row(mappings, linking_func, func_mappings, db, headers, vals))

Next ==
    \/ AddMapping(MaxMappings)
    \/ AddFunctionMapping
    \/ AddLinkingFunction
    \/ ProcessSpreadsheet

Spec == Init /\ [][Next]_vars

\* The handler driven row by row, as test_process_row_single does.
InitRow ==
    /\ Init
    /\ spreadsheet = <<<<None, None>>>>

NextRow ==
    \/ AddMapping(MaxRowMappings)
    \/ AddFunctionMapping
    \/ AddLinkingFunction
    \/ ProcessRow

SpecRow == InitRow /\ [][NextRow]_vars

\* ------------------------------------------------------- reading the trace
Calls(e) == {p \in 1..Len(trace) : trace[p].e = e}
CallsOf(e, i) == {p \in Calls(e) : trace[p].i = i}

\* The sheet's header row and data rows, as typed.
HeaderRow == spreadsheet[header_row + 1]
DataRowNumbers == (first_data_row + 1)..Len(spreadsheet)

\* ------------------------------------------------------------------ claims

\* C9: after any sequence of add_mapping calls, every registered mapping whose
\* unique_column is set has its unique_field set too.
C9_UniqueColumnHasField ==
    \A i \in 1..Len(mappings) :
       Truthy(mappings[i].unique_column) => mappings[i].unique_field # NoField

\* C3: process_spreadsheet skips every data row that repeats the header row
\* (its first cell is identical to the header row's first cell) and processes
\* every other data row: the result holds one entry per other row, and each of
\* those rows saves once per mapping.
C3_RepeatedHeaderRowsSkipped ==
    (op = "process_spreadsheet" /\ exc = NoExc /\ Truthy(HeaderRow[1])) =>
       LET kept == {n \in DataRowNumbers : spreadsheet[n][1] # HeaderRow[1]}
       IN  /\ Len(ret.items) = Cardinality(kept)
           /\ Cardinality(Calls("save")) = Len(mappings) * Cardinality(kept)

\* The spreadsheet columns whose header cell is the name, whatever its case.
ColumnsNamed(name) ==
    {c \in 1..Len(HeaderRow) : Truthy(HeaderRow[c]) /\ lower(HeaderRow[c]) = lower(name)}

\* C10: in process_spreadsheet every value read for a unique or mapped column
\* comes from the spreadsheet column under that header cell, also when the
\* header row has an empty cell before it.
C10_ValuesReadUnderTheirHeader ==
    (op = "process_spreadsheet") =>
       /\ \A p \in Calls("get") :
             \E n \in DataRowNumbers :
                \E c \in ColumnsNamed(trace[p].col) :
                   trace[p].value = spreadsheet[n][c]
       /\ \A p \in Calls("setattr") :
             \E n \in DataRowNumbers :
                \E c \in ColumnsNamed(trace[p].col) :
                   trace[p].value =
                      process_value(NewInstance, trace[p].field, spreadsheet[n][c])

\* The registered mappings whose unique column no header cell names.
MissingUnique ==
    {i \in 1..Len(mappings) :
        /\ Truthy(mappings[i].unique_column)
        /\ ColumnsNamed(mappings[i].unique_column) = {}}

\* C2 as claimed: whenever some registered mapping declares a unique column
\* that the header row does not name, process_spreadsheet raises
\* MissingUniqueHeaderException and returns no result list.
C2_AlwaysRaisesMissingUniqueHeader ==
    (op = "process_spreadsheet" /\ MissingUnique # {}) =>
       (exc = "MissingUniqueHeaderException" /\ ret = NoRet)

\* The header row's named cells, and the data rows that are not skipped.
NamedCells == SelectSeq(HeaderRow, Truthy)
RowsReached ==
    {n \in DataRowNumbers :
        NamedCells = <<>> \/ spreadsheet[n][1] # lower(NamedCells[1])}

\* C2 as amended: when some registered mapping declares a unique column that
\* the header row does not name and a data row is reached (one that is not
\* skipped as a repeated header), process_spreadsheet raises and returns no
\* result list; the exception is MissingUniqueHeaderException unless the header
\* row names no column at all (IndexError) or the lookup of an earlier mapping
\* fails first (TypeError without a unique field, MultipleObjectsReturned).
C2_RaisesOnceARowIsReached ==
    (op = "process_spreadsheet" /\ MissingUnique # {} /\ RowsReached # {}) =>
       /\ ret = NoRet
       /\ \/ exc = "MissingUniqueHeaderException" /\ NamedCells # <<>>
          \/ exc = "IndexError" /\ NamedCells = <<>>
          \/ /\ exc = "TypeError"
             /\ \E j \in 1..Len(mappings) :
                   /\ \A i \in MissingUnique : j < i
                   /\ Truthy(mappings[j].unique_column)
                   /\ mappings[j].unique_field = NoField
          \/ /\ exc = "MultipleObjectsReturned"
             /\ \E j \in 1..Len(mappings) :
                   /\ \A i \in MissingUnique : j < i
                   /\ Truthy(mappings[j].unique_column)
                   /\ mappings[j].unique_field # NoField

\* C2's case: the import of a sheet with data rows is aborted by the missing
\* unique header after an earlier mapping has already saved a record.
C2_Witness ==
    /\ op = "process_spreadsheet"
    /\ MissingUnique # {}
    /\ RowsReached # {}
    /\ exc = "MissingUniqueHeaderException"
    /\ Calls("save") # {}

\* The registered mappings with a unique column and a unique field.
Keyed ==
    {i \in 1..Len(mappings) :
        Truthy(mappings[i].unique_column) /\ mappings[i].unique_field # NoField}

\* C1 as claimed: with a unique-column mapping configured, a second import of
\* the same spreadsheet leaves the number of persisted records as the first
\* import left it.
C1_SecondImportAddsNoRecord ==
    (op = "process_spreadsheet" /\ imports = 2 /\ Keyed # {}) =>
       Cardinality(db) = Cardinality(db_before)

\* Every record a mapping saved carries, in the mapping's unique field, the
\* value the record was looked up by.
KeyKept ==
    \A p \in Calls("save") :
       LET i == trace[p].i
           q == Max({q \in CallsOf("get", i) : q < p})
       IN  trace[p].args[1][mappings[i].unique_field] = trace[q].value

\* No mapping assigns to a field that is the unique field of another mapping
\* and not its own.
NoCrossWrites ==
    \A i, j \in 1..Len(mappings) :
       \A k \in 1..Len(mappings[j].mapping) :
          mappings[j].mapping[k][2] = mappings[i].unique_field =>
             mappings[j].unique_field = mappings[i].unique_field

\* C1 as amended: when every registered mapping has a unique column and a
\* unique field, stores in that field the value it looked the record up by,
\* and assigns to no other mapping's unique field, a second import of the same
\* spreadsheet that returns after a first one that returned leaves the number
\* of persisted records unchanged.
C1_SecondImportOfKeyedMappings ==
    (/\ op = "process_spreadsheet"
     /\ imports = 2
     /\ Keyed = 1..Len(mappings)
     /\ Keyed # {}
     /\ KeyKept
     /\ NoCrossWrites) =>
       Cardinality(db) = Cardinality(db_before)

\* C1's case: the second import found the records the first one created and
\* saved over them.
C1_Witness ==
    /\ op = "process_spreadsheet"
    /\ imports = 2
    /\ Keyed = 1..Len(mappings)
    /\ Keyed # {}
    /\ KeyKept
    /\ NoCrossWrites
    /\ Calls("save") # {}
    /\ Calls("model") = {}
    /\ Cardinality(db) > 1

\* ------------------------------------------------- claims about process_row
\* The (headers, vals) the last process_row call was given.
Headers == args[1]
Vals == args[2]

\* The records persisted when the call at trace position p was made: the
\* storage the operation found, with the saves made before p applied.
StorageAt(p) ==
    LET before == {q \in Calls("save") : q < p}
        last == {q \in before :
                   \A q2 \in before :
                      trace[q2].args[1].pk = trace[q].args[1].pk => q2 <= q}
    IN  {trace[q].args[1] : q \in last} \cup
        {r \in db_before : \A q \in before : trace[q].args[1].pk # r.pk}

\* The persisted records a get call matched.
Matches(p) == {r \in StorageAt(p) : r[trace[p].field] = trace[p].value}

\* The mapping at position i got its instance: a new one, or the one record
\* its lookup matched.
Resolved(i) ==
    \/ CallsOf("model", i) # {}
    \/ \E p \in CallsOf("get", i) : Cardinality(Matches(p)) = 1

\* The instance the mapping at position i started from.
ResolvedInstance(i) ==
    IF CallsOf("model", i) # {}
    THEN NewInstance
    ELSE LET p == CHOOSE p \in CallsOf("get", i) : TRUE
         IN  CHOOSE r \in Matches(p) : TRUE

\* The instance the mapping at position i saved.
SavedInstance(i) == trace[CHOOSE p \in CallsOf("save", i) : TRUE].args[1]

SameFields(a, b) == \A f \in Fields : a[f] = b[f]

C5_ReturnsInstancesAndStats ==
    (op = "process_row" /\ exc = NoExc) =>
       /\ ret.kind = "pair"
       /\ Len(ret.items) = 2
       /\ Len(ret.items[1]) = Len(mappings)

\* C6: a mapped column that is absent from the headers raises no error (a
\* handler without unique columns never raises), makes no assignment and
\* leaves its field as the resolved instance had it; every mapped column that
\* is present is assigned, coerced, from the cell under it; and the instance
\* is saved with exactly these values.
C6_AbsentColumnsAreSkipped ==
    (op = "process_row") =>
       /\ (\A i \in 1..Len(mappings) : ~Truthy(mappings[i].unique_column)) =>
             exc = NoExc
       /\ \A i \in 1..Len(mappings) :
             Resolved(i) =>
                /\ CallsOf("save", i) # {}
                /\ \A j \in 1..Len(mappings[i].mapping) :
                      LET col == mappings[i].mapping[j][1]
                          field == mappings[i].mapping[j][2]
                          under == {c \in 1..Len(Headers) : Headers[c] = lower(col)}
                          set == {q \in CallsOf("setattr", i) : trace[q].col = col}
                      IN  IF under = {}
                          THEN /\ set = {}
                               /\ SavedInstance(i)[field] = ResolvedInstance(i)[field]
                          ELSE /\ Cardinality(set) = 1
                               /\ \A q \in set :
                                     /\ trace[q].field = field
                                     /\ trace[q].value = SavedInstance(i)[field]
                                     /\ \E c \in under :
                                           /\ \A c2 \in under : c <= c2
                                           /\ trace[q].value =
                                                 process_value(NewInstance, field, Vals[c])

\* C6's case: a mapping with one column present and one absent was applied to
\* a record found in the storage, and the absent column's field kept the value
\* the record had.
C6_Witness ==
    /\ op = "process_row"
    /\ exc = NoExc
    /\ \E i \in 1..Len(mappings) :
          /\ CallsOf("model", i) = {}
          /\ CallsOf("setattr", i) # {}
          /\ \E j \in 1..Len(mappings[i].mapping) :
                /\ \A c \in 1..Len(Headers) :
                      Headers[c] # lower(mappings[i].mapping[j][1])
                /\ SavedInstance(i)[mappings[i].mapping[j][2]] # NewInstance[mappings[i].mapping[j][2]]

\* C7: process_row saves the instance of every mapping it resolved exactly
\* once, after that mapping's lookup and assignments, and the storage then
\* holds what was saved; a unique-column mapping whose cell value matches no
\* persisted record constructs exactly one instance, saved once as a new
\* record.
C7_SavedExactlyOnce ==
    (op = "process_row") =>
       /\ (exc = NoExc => \A i \in 1..Len(mappings) : Resolved(i))
       /\ StorageAt(Len(trace) + 1) = db
       /\ \A i \in 1..Len(mappings) :
             /\ Cardinality(CallsOf("save", i)) = (IF Resolved(i) THEN 1 ELSE 0)
             /\ Cardinality(CallsOf("model", i)) <= 1
             /\ \A p \in CallsOf("save", i) :
                   /\ \A q \in CallsOf("get", i) \cup CallsOf("model", i)
                                 \cup CallsOf("setattr", i) : q < p
                   /\ exc = NoExc => trace[p].args[1] = ret.items[i]
             /\ \A p \in CallsOf("get", i) :
                   Matches(p) = {} =>
                      /\ Cardinality(CallsOf("model", i)) = 1
                      /\ Cardinality(CallsOf("save", i)) = 1
                      /\ SavedInstance(i).pk \notin {r.pk : r \in StorageAt(p)}

\* C7's case: a unique-column mapping whose cell value matched no persisted
\* record, in a storage that held records, created and saved one instance.
C7_Witness ==
    /\ op = "process_row"
    /\ exc = NoExc
    /\ db_before # {}
    /\ \E i \in 1..Len(mappings) :
          /\ Truthy(mappings[i].unique_column)
          /\ \E p \in CallsOf("get", i) : Matches(p) = {}
          /\ CallsOf("model", i) # {}
          /\ SavedInstance(i) \in db
          /\ Cardinality(db) > Cardinality(db_before)

\* The headers that equal the name up to letter case.
HeadersNamed(name) == {c \in 1..Len(Headers) : lower(Headers[c]) = lower(name)}

\* Every mapped column and every unique column that a header names up to
\* letter case is found: the mapped field is assigned from that column and the
\* lookup does not raise MissingUniqueHeaderException.
ColumnsFoundWhateverTheCase ==
    /\ exc = "MissingUniqueHeaderException" =>
          \E i \in 1..Len(mappings) :
             /\ Truthy(mappings[i].unique_column)
             /\ HeadersNamed(mappings[i].unique_column) = {}
    /\ \A i \in 1..Len(mappings) :
          Resolved(i) =>
             \A j \in 1..Len(mappings[i].mapping) :
                LET col == mappings[i].mapping[j][1]
                    field == mappings[i].mapping[j][2]
                IN  HeadersNamed(col) # {} =>
                       \E q \in CallsOf("setattr", i) :
                          /\ trace[q].col = col
                          /\ trace[q].field = field
                          /\ \E c \in HeadersNamed(col) :
                                trace[q].value =
                                   process_value(NewInstance, field, Vals[c])

\* C8 as claimed: column matching is case-insensitive whatever the letter case
\* of the mapping declaration and of the headers given to process_row.
C8_CaseInsensitiveForAnyHeaders ==
    (op = "process_row") => ColumnsFoundWhateverTheCase

LowerCased(list) == \A c \in 1..Len(list) : lower(list[c]) = list[c]

\* C8 as amended: column matching is case-insensitive in the mapping
\* declaration (mapped column names and the declared unique column), for
\* headers that reach process_row in lower case, as process_spreadsheet's
\* header extraction makes them.
C8_CaseInsensitiveForLowerCasedHeaders ==
    (op = "process_row" /\ LowerCased(Headers)) => ColumnsFoundWhateverTheCase

\* C8's case: lower-case headers, a mapping declared with upper-case letters
\* for its unique column and its mapped columns, both found.
C8_Witness ==
    /\ op = "process_row"
    /\ LowerCased(Headers)
    /\ exc = NoExc
    /\ \E q \in Calls("setattr") : lower(trace[q].col) # trace[q].col
    /\ Calls("get") # {}

====
